---- MODULE Spec2Model ----
(***************************************************************************)
(* Model of the PCB trace analyzer (src/src/trace-analyzer.ts): the path   *)
(* command parser, the relative-to-absolute coordinate resolver, the       *)
(* single trace analysis and the junction / connectivity builder.          *)
(*                                                                         *)
(* Numbers.  Coordinates and path parameters are integers counted in grid  *)
(* units of 0.05, so that the default tolerance 0.1 is 2 units.  On such   *)
(* values the additions of the resolver are exact; the rounding of IEEE    *)
(* doubles in currentX + point.x and NaN parameters are not modelled.      *)
(* The division by the tolerance and Math.round are modelled exactly       *)
(* (Round).                                                                *)
(*                                                                         *)
(* Path data.  A path data string is modelled after the tokenisation done  *)
(* by commandRegex and parseFloat: a sequence of tokens, each a command    *)
(* letter with its list of numeric parameters.                             *)
(*                                                                         *)
(* Optional values (startPoint?, endPoint?, minJunctionDistance?) are      *)
(* sequences of length 0 (undefined) or 1 (the value).                     *)
(***************************************************************************)
EXTENDS Integers, Sequences, FiniteSets, TLC

VARIABLES
    trace,      \* SpecAnalyze: the trace handed to / returned by analyzeTrace
    analyzed,   \* SpecAnalyze: TRUE once analyzeTrace has returned
    traces,     \* Spec: analyzedTraces of analyzeTracesInSVG
    junctions,  \* Spec: the Junction[] returned by the last findJunctions
    options,    \* Spec: options.minJunctionDistance (optional)
    phase,      \* Spec: "analyze" | "found" | "built"
    runs        \* Spec: completed runs of the connectivity builder

vars == <<trace, analyzed, traces, junctions, options, phase, runs>>

----------------------------------------------------------------------------
(* Bounds and input domains *)

MaxCmds == 3        \* commands in one path data string (SpecAnalyze)
MaxTraces == 3      \* traces of one board (Spec)
MaxRuns == 2        \* runs of the connectivity builder on one trace list

CommandTypes == {"M", "m", "L", "l", "H", "h", "V", "v", "Z", "z", "C"}

\* parameter lists of one command: an unpaired parameter, one pair, two pairs
ParamLists == {<<2>>, <<1, 2>>, <<2, 1, -1, 3>>}

Tokens == [type : CommandTypes, params : ParamLists]

\* the path data strings of n commands
PathDatas(n) == [1..n -> Tokens]

\* end points of the traces of a board, and the board's traces: a MoveTo
\* without parameters (no point), a closed path, or a MoveTo followed by a
\* LineTo
BoardPoints == {<<0, 0>>, <<1, 0>>, <<-1, 2>>}

BoardPaths ==
    {<<[type |-> "M", params |-> <<>>]>>}
    \cup {<<[type |-> "M", params |-> <<1, 0>>], [type |-> "l", params |-> <<0, 3>>],
            [type |-> "Z", params |-> <<>>]>>}
    \cup {<<[type |-> "M", params |-> a], [type |-> "L", params |-> b]>> :
             a \in BoardPoints, b \in BoardPoints}

\* options.minJunctionDistance: absent, zero, negative, 0.05, 0.2
OptionValues == {<<>>, <<0>>, <<-2>>, <<1>>, <<4>>}

\* options.minJunctionDistance || 0.1, in grid units of 0.05
DefaultMinJunctionDistance == 2

----------------------------------------------------------------------------
(* Helpers of the JavaScript runtime *)

toUpperCase(t) ==
    CASE t = "m" -> "M" [] t = "l" -> "L" [] t = "h" -> "H" [] t = "v" -> "V"
      [] t = "z" -> "Z" [] t = "c" -> "C" [] OTHER -> t

toLowerCase(t) ==
    CASE t = "M" -> "m" [] t = "L" -> "l" [] t = "H" -> "h" [] t = "V" -> "v"
      [] t = "Z" -> "z" [] t = "C" -> "c" [] OTHER -> t

Abs(n) == IF n < 0 THEN -n ELSE n

\* Math.round(n / d) for d # 0: the nearest integer, halves towards +infinity
Round(n, d) ==
    LET nn == IF d < 0 THEN -n ELSE n
        dd == IF d < 0 THEN -d ELSE d
    IN  (2 * nn + dd) \div (2 * dd)

Last(s) == s[Len(s)]

----------------------------------------------------------------------------
(* parsePathCommands *)

ParseCommand(tok) ==
    LET up == toUpperCase(tok.type)
        params == tok.params
    IN  [type |-> tok.type,
         isRelative |-> (toLowerCase(tok.type) = tok.type),
         points |->
            CASE up \in {"M", "L"} ->
                    [k \in 1..(Len(params) \div 2) |->
                        [x |-> params[2 * k - 1], y |-> params[2 * k]]]
              [] up = "H" -> [k \in 1..Len(params) |-> [x |-> params[k], y |-> 0]]
              [] up = "V" -> [k \in 1..Len(params) |-> [x |-> 0, y |-> params[k]]]
              [] OTHER -> <<>>]

parsePathCommands(pathData) ==
    [i \in 1..Len(pathData) |-> ParseCommand(pathData[i])]

----------------------------------------------------------------------------
(* convertToAbsoluteCoordinates.  st is the closure state of the map       *)
(* callback: currentX, currentY, subpathStartX, subpathStartY.  Each       *)
(* XxxPoint is one iteration of the loop of that case; it returns the new  *)
(* closure state and the point pushed.                                     *)

InitialCursor ==
    [currentX |-> 0, currentY |-> 0, subpathStartX |-> 0, subpathStartY |-> 0]

\* MoveToPoint with the subpath start overwritten by every point
MoveToPointMut(cmd, i, st) ==
    LET point == cmd.points[i]
        x == IF cmd.isRelative THEN st.currentX + point.x ELSE point.x
        y == IF cmd.isRelative THEN st.currentY + point.y ELSE point.y
    IN  [point |-> [x |-> x, y |-> y],
         st |-> [currentX |-> x, currentY |-> y,
                 subpathStartX |-> x, subpathStartY |-> y]]

MoveToPoint(cmd, i, st) ==
    LET point == cmd.points[i]
        x == IF cmd.isRelative THEN st.currentX + point.x ELSE point.x
        y == IF cmd.isRelative THEN st.currentY + point.y ELSE point.y
    IN  [point |-> [x |-> x, y |-> y],
         st |-> IF i = 1
                THEN [currentX |-> x, currentY |-> y,
                      subpathStartX |-> x, subpathStartY |-> y]
                ELSE [st EXCEPT !.currentX = x, !.currentY = y]]

LineToPoint(cmd, i, st) ==
    LET point == cmd.points[i]
        x == IF cmd.isRelative THEN st.currentX + point.x ELSE point.x
        y == IF cmd.isRelative THEN st.currentY + point.y ELSE point.y
    IN  [point |-> [x |-> x, y |-> y],
         st |-> [st EXCEPT !.currentX = x, !.currentY = y]]

HorizontalPoint(cmd, i, st) ==
    LET point == cmd.points[i]
        x == IF cmd.isRelative THEN st.currentX + point.x ELSE point.x
    IN  [point |-> [x |-> x, y |-> st.currentY],
         st |-> [st EXCEPT !.currentX = x]]

\* VerticalPoint without the update of currentY
VerticalPointMut(cmd, i, st) ==
    LET point == cmd.points[i]
        y == IF cmd.isRelative THEN st.currentY + point.y ELSE point.y
    IN  [point |-> [x |-> st.currentX, y |-> y],
         st |-> st]

VerticalPoint(cmd, i, st) ==
    LET point == cmd.points[i]
        y == IF cmd.isRelative THEN st.currentY + point.y ELSE point.y
    IN  [point |-> [x |-> st.currentX, y |-> y],
         st |-> [st EXCEPT !.currentY = y]]

ClosePath(st) ==
    [points |-> <<[x |-> st.subpathStartX, y |-> st.subpathStartY]>>,
     st |-> [st EXCEPT !.currentX = st.subpathStartX,
                       !.currentY = st.subpathStartY]]

RECURSIVE ResolvePoints(_, _, _, _)
ResolvePoints(cmd, i, st, out) ==
    IF i > Len(cmd.points) THEN [points |-> out, st |-> st]
    ELSE LET up == toUpperCase(cmd.type)
             r == CASE up = "M" -> MoveToPoint(cmd, i, st)
                    [] up = "L" -> LineToPoint(cmd, i, st)
                    [] up = "H" -> HorizontalPoint(cmd, i, st)
                    [] up = "V" -> VerticalPoint(cmd, i, st)
         IN  ResolvePoints(cmd, i + 1, r.st, Append(out, r.point))

\* one call of the map callback
ConvertCommand(cmd, st) ==
    LET up == toUpperCase(cmd.type)
        r == CASE up \in {"M", "L", "H", "V"} -> ResolvePoints(cmd, 1, st, <<>>)
               [] up = "Z" -> ClosePath(st)
               [] OTHER -> [points |-> <<>>, st |-> st]
    IN  [result |-> [type |-> cmd.type, points |-> r.points, isRelative |-> FALSE],
         st |-> r.st]

RECURSIVE ConvertFrom(_, _, _, _)
ConvertFrom(commands, index, st, out) ==
    IF index > Len(commands) THEN out
    ELSE LET r == ConvertCommand(commands[index], st)
         IN  ConvertFrom(commands, index + 1, r.st, Append(out, r.result))

convertToAbsoluteCoordinates(commands) ==
    ConvertFrom(commands, 1, InitialCursor, <<>>)

----------------------------------------------------------------------------
(* getPointsFromCommands, analyzeTrace *)

\* ConcatPoints with the operands of concat swapped
RECURSIVE ConcatPointsMut(_, _, _)
ConcatPointsMut(commands, index, points) ==
    IF index > Len(commands) THEN points
    ELSE ConcatPointsMut(commands, index + 1, commands[index].points \o points)

RECURSIVE ConcatPoints(_, _, _)
ConcatPoints(commands, index, points) ==
    IF index > Len(commands) THEN points
    ELSE ConcatPoints(commands, index + 1, points \o commands[index].points)

getPointsFromCommands(commands) == ConcatPoints(commands, 1, <<>>)

\* Direction with the threshold off by one
DirectionMut(points) ==
    IF Len(points) > 2
    THEN LET start == points[1]
             end == Last(points)
             dx == Abs(end.x - start.x)
             dy == Abs(end.y - start.y)
         IN  IF dx > dy * 2 THEN "horizontal"
             ELSE IF dy > dx * 2 THEN "vertical"
             ELSE "diagonal"
    ELSE "unknown"

Direction(points) ==
    IF Len(points) >= 2
    THEN LET start == points[1]
             end == Last(points)
             dx == Abs(end.x - start.x)
             dy == Abs(end.y - start.y)
         IN  IF dx > dy * 2 THEN "horizontal"
             ELSE IF dy > dx * 2 THEN "vertical"
             ELSE "diagonal"
    ELSE "unknown"

analyzeTrace(t) ==
    LET commands == parsePathCommands(t.pathData)
        absoluteCommands == convertToAbsoluteCoordinates(commands)
        points == getPointsFromCommands(absoluteCommands)
    IN  [id |-> t.id,
         pathData |-> t.pathData,
         commands |-> absoluteCommands,
         points |-> points,
         startPoint |-> IF Len(points) > 0 THEN <<points[1]>> ELSE <<>>,
         endPoint |-> IF Len(points) > 0 THEN <<Last(points)>> ELSE <<>>,
         connectedTraces |-> <<>>,
         direction |-> Direction(points)]

----------------------------------------------------------------------------
(* findJunctions.  pointMap is the Map<string, string[]> in insertion      *)
(* order: a sequence of entries [key, traceIds].  The key string           *)
(* `${a},${b}` of two rounded integers is modelled as the pair <<a, b>>.   *)

MinDistance(opts) ==
    IF opts = <<>> \/ opts[1] = 0 THEN DefaultMinJunctionDistance ELSE opts[1]

BucketKey(p, minDistance) ==
    <<Round(p.x, minDistance), Round(p.y, minDistance)>>

MapPush(pointMap, key, id) ==
    IF \E i \in 1..Len(pointMap) : pointMap[i].key = key
    THEN [i \in 1..Len(pointMap) |->
             IF pointMap[i].key = key
             THEN [pointMap[i] EXCEPT !.traceIds = Append(@, id)]
             ELSE pointMap[i]]
    ELSE Append(pointMap, [key |-> key, traceIds |-> <<id>>])

\* AddEndpoints without the end point
AddEndpointsMut(pointMap, t, minDistance) ==
    IF t.startPoint # <<>>
    THEN MapPush(pointMap, BucketKey(t.startPoint[1], minDistance), t.id)
    ELSE pointMap

\* one call of the analyzedTraces.forEach callback
AddEndpoints(pointMap, t, minDistance) ==
    LET afterStart ==
            IF t.startPoint # <<>>
            THEN MapPush(pointMap, BucketKey(t.startPoint[1], minDistance), t.id)
            ELSE pointMap
    IN  IF t.endPoint # <<>>
        THEN MapPush(afterStart, BucketKey(t.endPoint[1], minDistance), t.id)
        ELSE afterStart

RECURSIVE BuildPointMap(_, _, _, _)
BuildPointMap(ts, index, minDistance, pointMap) ==
    IF index > Len(ts) THEN pointMap
    ELSE BuildPointMap(ts, index + 1, minDistance,
                       AddEndpoints(pointMap, ts[index], minDistance))

\* [...new Set(ids)]: the first occurrence of every id, in order
RECURSIVE Dedup(_)
Dedup(ids) ==
    IF ids = <<>> THEN <<>>
    ELSE LET front == Dedup(SubSeq(ids, 1, Len(ids) - 1))
         IN  IF \E i \in 1..Len(front) : front[i] = Last(ids)
             THEN front
             ELSE Append(front, Last(ids))

IsJunctionBucket(traceIds) == Len(traceIds) > 1

RECURSIVE CollectJunctions(_, _, _, _)
CollectJunctions(pointMap, index, minDistance, out) ==
    IF index > Len(pointMap) THEN out
    ELSE LET e == pointMap[index]
         IN  CollectJunctions(pointMap, index + 1, minDistance,
                 IF IsJunctionBucket(e.traceIds)
                 THEN Append(out, [point |-> [x |-> e.key[1] * minDistance,
                                              y |-> e.key[2] * minDistance],
                                   traceIds |-> Dedup(e.traceIds)])
                 ELSE out)

findJunctions(ts, opts) ==
    LET minDistance == MinDistance(opts)
        pointMap == BuildPointMap(ts, 1, minDistance, <<>>)
    IN  CollectJunctions(pointMap, 1, minDistance, <<>>)

----------------------------------------------------------------------------
(* updateTraceConnectivity *)

\* Connect without the includes() test
ConnectNoIncludes(ts, id1, id2) ==
    IF id1 # id2 /\ (\E i \in 1..Len(ts) : ts[i].id = id1)
    THEN LET found == CHOOSE i \in 1..Len(ts) :
                          /\ ts[i].id = id1
                          /\ \A j \in 1..(i - 1) : ts[j].id # id1
         IN  [ts EXCEPT ![found].connectedTraces = Append(@, id2)]
    ELSE ts

\* the body of the innermost forEach callback
Connect(ts, id1, id2) ==
    IF id1 # id2 /\ (\E i \in 1..Len(ts) : ts[i].id = id1)
    THEN LET found == CHOOSE i \in 1..Len(ts) :
                          /\ ts[i].id = id1
                          /\ \A j \in 1..(i - 1) : ts[j].id # id1
         IN  IF \A k \in 1..Len(ts[found].connectedTraces) :
                    ts[found].connectedTraces[k] # id2
             THEN [ts EXCEPT ![found].connectedTraces = Append(@, id2)]
             ELSE ts
    ELSE ts

\* ConnectInner without the id1 !== id2 test
RECURSIVE ConnectInnerSelf(_, _, _, _)
ConnectInnerSelf(ts, ids, i1, i2) ==
    IF i2 > Len(ids) THEN ts
    ELSE LET found == CHOOSE i \in 1..Len(ts) : ts[i].id = ids[i1]
             next == IF \A k \in 1..Len(ts[found].connectedTraces) :
                            ts[found].connectedTraces[k] # ids[i2]
                     THEN [ts EXCEPT ![found].connectedTraces = Append(@, ids[i2])]
                     ELSE ts
         IN  ConnectInnerSelf(next, ids, i1, i2 + 1)

RECURSIVE ConnectInner(_, _, _, _)
ConnectInner(ts, ids, i1, i2) ==
    IF i2 > Len(ids) THEN ts
    ELSE ConnectInner(Connect(ts, ids[i1], ids[i2]), ids, i1, i2 + 1)

\* ConnectOuter visiting every unordered pair once
RECURSIVE ConnectOuterHalf(_, _, _)
ConnectOuterHalf(ts, ids, i1) ==
    IF i1 > Len(ids) THEN ts
    ELSE ConnectOuterHalf(ConnectInner(ts, ids, i1, i1 + 1), ids, i1 + 1)

RECURSIVE ConnectOuter(_, _, _)
ConnectOuter(ts, ids, i1) ==
    IF i1 > Len(ids) THEN ts
    ELSE ConnectOuter(ConnectInner(ts, ids, i1, 1), ids, i1 + 1)

RECURSIVE ConnectJunctions(_, _, _)
ConnectJunctions(ts, js, index) ==
    IF index > Len(js) THEN ts
    ELSE ConnectJunctions(ConnectOuter(ts, js[index].traceIds, 1), js, index + 1)

updateTraceConnectivity(ts, js) == ConnectJunctions(ts, js, 1)

----------------------------------------------------------------------------
(* SpecAnalyze: analyzeTrace applied to one raw trace *)

NoTrace == [id |-> 0, pathData |-> <<>>]

InitAnalyze ==
    /\ \E n \in 0..MaxCmds : trace \in [id : {1}, pathData : PathDatas(n)]
    /\ analyzed = FALSE
    /\ traces = <<>>
    /\ junctions = <<>>
    /\ options = <<>>
    /\ phase = "analyze"
    /\ runs = 0

Analyze ==
    /\ ~analyzed
    /\ trace' = analyzeTrace(trace)
    /\ analyzed' = TRUE
    /\ UNCHANGED <<traces, junctions, options, phase, runs>>

NextAnalyze == Analyze

SpecAnalyze == InitAnalyze /\ [][NextAnalyze]_vars

----------------------------------------------------------------------------
(* Spec: analyzeTracesInSVG, and further runs of the builder on its result *)

Init ==
    /\ trace = NoTrace
    /\ analyzed = FALSE
    /\ traces = <<>>
    /\ junctions = <<>>
    /\ options \in OptionValues
    /\ phase = "analyze"
    /\ runs = 0

\* rawTraces.map(trace => analyzeTrace(trace)), one raw trace at a time;
\* the extractor numbers the traces (trace-1, trace-2, ...)
AnalyzeTrace ==
    /\ phase = "analyze"
    /\ Len(traces) < MaxTraces
    /\ \E pd \in BoardPaths :
          traces' = Append(traces, analyzeTrace([id |-> Len(traces) + 1, pathData |-> pd]))
    /\ UNCHANGED <<trace, analyzed, junctions, options, phase, runs>>

FindJunctions ==
    /\ phase \in {"analyze", "built"}
    /\ runs < MaxRuns
    /\ junctions' = findJunctions(traces, options)
    /\ phase' = "found"
    /\ UNCHANGED <<trace, analyzed, traces, options, runs>>

UpdateTraceConnectivity ==
    /\ phase = "found"
    /\ traces' = updateTraceConnectivity(traces, junctions)
    /\ phase' = "built"
    /\ runs' = runs + 1
    /\ UNCHANGED <<trace, analyzed, junctions, options>>

Next == AnalyzeTrace \/ FindJunctions \/ UpdateTraceConnectivity

Spec == Init /\ [][Next]_vars

----------------------------------------------------------------------------
(* Vocabulary of the properties *)

Range(s) == {s[i] : i \in 1..Len(s)}

Origin == [x |-> 0, y |-> 0]

IsMoveTo(cmd) == toUpperCase(cmd.type) = "M"
IsClosePath(cmd) == toUpperCase(cmd.type) = "Z"
IsRelativeLine(tok) == tok.type \in {"m", "l", "h", "v"}

\* the MoveTo commands before command i that resolved at least one point
MovesBefore(cmds, i) ==
    {j \in 1..(i - 1) : IsMoveTo(cmds[j]) /\ Len(cmds[j].points) > 0}

\* the first resolved point of the most recent such MoveTo, else (0,0)
SubpathStartAt(cmds, i) ==
    IF MovesBefore(cmds, i) = {} THEN Origin
    ELSE LET j == CHOOSE m \in MovesBefore(cmds, i) :
                      \A n \in MovesBefore(cmds, i) : n <= m
         IN  cmds[j].points[1]

\* the commands before command i that resolved at least one point
EmittersBefore(cmds, i) == {j \in 1..(i - 1) : Len(cmds[j].points) > 0}

\* the point resolved just before the first point of command i, else (0,0)
PointBefore(cmds, i) ==
    IF EmittersBefore(cmds, i) = {} THEN Origin
    ELSE LET j == CHOOSE m \in EmittersBefore(cmds, i) :
                      \A n \in EmittersBefore(cmds, i) : n <= m
         IN  Last(cmds[j].points)

\* the k-th relative parameter of a token, as a displacement
Delta(tok, k) ==
    CASE tok.type \in {"m", "l"} ->
            [x |-> tok.params[2 * k - 1], y |-> tok.params[2 * k]]
      [] tok.type = "h" -> [x |-> tok.params[k], y |-> 0]
      [] tok.type = "v" -> [x |-> 0, y |-> tok.params[k]]

Plus(p, d) == [x |-> p.x + d.x, y |-> p.y + d.y]

\* the number of points resolved by the commands before command i
RECURSIVE PointsBefore(_, _)
PointsBefore(cmds, i) ==
    IF i <= 1 THEN 0
    ELSE PointsBefore(cmds, i - 1) + Len(cmds[i - 1].points)

----------------------------------------------------------------------------
(* Properties of convertToAbsoluteCoordinates and analyzeTrace, checked    *)
(* under SpecAnalyze                                                       *)

\* C4: every ClosePath resolves to exactly one point, the first resolved
\* point of the most recent preceding MoveTo that resolved a point ((0,0)
\* when there is none), whatever came in between, and a relative command
\* that follows it is resolved against that point.
C4_ClosePathReturnsToSubpathStart ==
    analyzed =>
        \A i \in 1..Len(trace.commands) :
            IsClosePath(trace.commands[i]) =>
                /\ trace.commands[i].points = <<SubpathStartAt(trace.commands, i)>>
                /\ (/\ i < Len(trace.commands)
                    /\ IsRelativeLine(trace.pathData[i + 1])
                    /\ Len(trace.commands[i + 1].points) > 0)
                   => trace.commands[i + 1].points[1] =
                          Plus(SubpathStartAt(trace.commands, i),
                               Delta(trace.pathData[i + 1], 1))

C4_Witness ==
    /\ analyzed
    /\ Len(trace.commands) = 3
    /\ trace.commands[1].type = "M" /\ Len(trace.commands[1].points) = 2
    /\ trace.commands[2].type = "Z"
    /\ trace.commands[3].type = "l" /\ Len(trace.commands[3].points) > 0

\* C5 as stated: for a trace with points, startPoint is the first point of
\* the first MoveTo command of the path.
C5_StartIsFirstMoveTo ==
    (analyzed /\ Len(trace.points) > 0) =>
        \E m \in 1..Len(trace.commands) :
            /\ IsMoveTo(trace.commands[m])
            /\ \A j \in 1..(m - 1) : ~IsMoveTo(trace.commands[j])
            /\ Len(trace.commands[m].points) > 0
            /\ trace.startPoint = <<trace.commands[m].points[1]>>

\* C5 (amended): for a trace with points, points lists the resolved points
\* command by command in the order of pathData, startPoint is the first
\* point emitted by any command (the first point of the first MoveTo when
\* the path begins with a MoveTo that has a point) and endPoint is the last
\* point emitted by any command.
C5_PointsInCommandOrder ==
    (analyzed /\ Len(trace.points) > 0) =>
        LET cmds == trace.commands
            first == CHOOSE i \in 1..Len(cmds) :
                         /\ Len(cmds[i].points) > 0
                         /\ \A j \in 1..(i - 1) : Len(cmds[j].points) = 0
            last == CHOOSE i \in 1..Len(cmds) :
                        /\ Len(cmds[i].points) > 0
                        /\ \A j \in (i + 1)..Len(cmds) : Len(cmds[j].points) = 0
        IN  /\ Len(cmds) = Len(trace.pathData)
            /\ \A i \in 1..Len(cmds) : cmds[i].type = trace.pathData[i].type
            /\ Len(trace.points) = PointsBefore(cmds, Len(cmds) + 1)
            /\ \A i \in 1..Len(cmds) : \A k \in 1..Len(cmds[i].points) :
                   trace.points[PointsBefore(cmds, i) + k] = cmds[i].points[k]
            /\ trace.startPoint = <<cmds[first].points[1]>>
            /\ (IsMoveTo(cmds[1]) /\ Len(cmds[1].points) > 0)
                   => trace.startPoint = <<cmds[1].points[1]>>
            /\ trace.endPoint = <<Last(cmds[last].points)>>

C5_Witness ==
    /\ analyzed
    /\ Len(trace.commands) = 3
    /\ trace.commands[1].type = "M" /\ Len(trace.commands[1].points) = 2
    /\ trace.commands[2].type = "h" /\ Len(trace.commands[2].points) = 2
    /\ trace.commands[3].type = "Z"
    /\ Len(trace.points) = 5

\* C8: direction is 'unknown' exactly when the trace has fewer than 2
\* points; with 2 or more points it is horizontal, vertical or diagonal.
C8_UnknownIffFewerThanTwoPoints ==
    analyzed =>
        /\ (trace.direction = "unknown") <=> (Len(trace.points) < 2)
        /\ Len(trace.points) >= 2 =>
               trace.direction \in {"horizontal", "vertical", "diagonal"}

C8_Witness ==
    /\ analyzed
    /\ Len(trace.pathData) = 2
    /\ Len(trace.points) = 2
    /\ trace.direction = "vertical"

\* C9: every point resolved from a relative command (m, l, h, v) lies at
\* the command's relative parameter from the point resolved just before
\* it: (dx, dy) for m and l, (dx, 0) for h, (0, dy) for v.
C9_RelativeDeltasReproduced ==
    analyzed =>
        \A i \in 1..Len(trace.commands) :
            IsRelativeLine(trace.pathData[i]) =>
                \A k \in 1..Len(trace.commands[i].points) :
                    LET before == IF k > 1 THEN trace.commands[i].points[k - 1]
                                  ELSE PointBefore(trace.commands, i)
                    IN  trace.commands[i].points[k] =
                            Plus(before, Delta(trace.pathData[i], k))

C9_Witness ==
    /\ analyzed
    /\ Len(trace.commands) = 3
    /\ trace.commands[1].type = "M" /\ Len(trace.commands[1].points) = 1
    /\ trace.commands[2].type = "z"
    /\ trace.commands[3].type = "v" /\ Len(trace.commands[3].points) = 4

----------------------------------------------------------------------------
(* Properties of the junction and connectivity builder, checked under Spec *)

Ids == {traces[a].id : a \in 1..Len(traces)}

TraceOf(id) == traces[CHOOSE a \in 1..Len(traces) : traces[a].id = id]

Connected(id) == Range(TraceOf(id).connectedTraces)

\* the start and end points a trace has
Endpoints(t) == Range(t.startPoint) \cup Range(t.endPoint)

\* some returned Junction holds both ids
ShareJunction(id1, id2) ==
    \E j \in 1..Len(junctions) :
        id1 \in Range(junctions[j].traceIds) /\ id2 \in Range(junctions[j].traceIds)

Tolerance == MinDistance(options)

WithinTolerance(p, q) ==
    /\ Tolerance > 0
    /\ (p.x - q.x) * (p.x - q.x) + (p.y - q.y) * (p.y - q.y) < Tolerance * Tolerance

\* C1: after a run of the builder connectivity is symmetric and no id is
\* listed twice, also for traces that share more than one junction.
C1_SymmetricDuplicateFree ==
    phase = "built" =>
        /\ \A a \in Ids : \A b \in Ids : (a \in Connected(b)) <=> (b \in Connected(a))
        /\ \A a \in Ids :
               Cardinality(Connected(a)) = Len(TraceOf(a).connectedTraces)

C1_Witness ==
    /\ phase = "built"
    /\ \E a \in Ids : \E b \in Ids :
          /\ a # b
          /\ b \in Connected(a)
          /\ \E j \in 1..Len(junctions) : \E k \in 1..Len(junctions) :
                /\ j # k
                /\ {a, b} \subseteq Range(junctions[j].traceIds)
                /\ {a, b} \subseteq Range(junctions[k].traceIds)

\* C2: every Junction returned by findJunctions has at least 2 distinct
\* trace ids.
C2_JunctionHasTwoTraces ==
    \A j \in 1..Len(junctions) : Cardinality(Range(junctions[j].traceIds)) >= 2

\* C3: a further run of the builder on the same traces with the same
\* tolerance returns the same set of Junctions and leaves every
\* connectedTraces as the run before left it.
C3_BuilderIdempotent ==
    [][/\ (runs >= 1 /\ phase = "built" /\ phase' = "found")
           => Range(junctions') = Range(junctions)
       /\ (runs >= 1 /\ phase = "found" /\ phase' = "built")
           => traces' = traces]_vars

C3_Witness ==
    /\ phase = "built"
    /\ runs = 2
    /\ Len(junctions) >= 2
    /\ \E a \in Ids : Cardinality(Connected(a)) >= 2

\* C6 as stated: two end points closer than the tolerance get the same
\* bucket key, and two different traces that own them are in one Junction.
C6_WithinToleranceSameBucket ==
    phase \in {"found", "built"} =>
        \A a \in Ids : \A b \in Ids :
            \A p \in Endpoints(TraceOf(a)) : \A q \in Endpoints(TraceOf(b)) :
                WithinTolerance(p, q) =>
                    /\ BucketKey(p, Tolerance) = BucketKey(q, Tolerance)
                    /\ a # b => ShareJunction(a, b)

\* C6 (amended): two end points closer than the tolerance get bucket keys
\* that are equal or adjacent (each rounded coordinate differs by at most 1),
\* and two different traces are in one Junction when an end point of one and
\* an end point of the other get the same bucket key.
C6_SameBucketJoined ==
    phase \in {"found", "built"} =>
        \A a \in Ids : \A b \in Ids :
            \A p \in Endpoints(TraceOf(a)) : \A q \in Endpoints(TraceOf(b)) :
                LET kp == BucketKey(p, Tolerance)
                    kq == BucketKey(q, Tolerance)
                IN  /\ WithinTolerance(p, q) =>
                           Abs(kp[1] - kq[1]) <= 1 /\ Abs(kp[2] - kq[2]) <= 1
                    /\ (kp = kq /\ a # b) => ShareJunction(a, b)

C6_Witness ==
    /\ phase = "found"
    /\ \E a \in Ids : \E b \in Ids :
          /\ a # b
          /\ \E p \in Endpoints(TraceOf(a)) : \E q \in Endpoints(TraceOf(b)) :
                /\ p # q
                /\ WithinTolerance(p, q)
                /\ BucketKey(p, Tolerance) = BucketKey(q, Tolerance)
                /\ ShareJunction(a, b)
          /\ \E p \in Endpoints(TraceOf(a)) : \E q \in Endpoints(TraceOf(b)) :
                /\ WithinTolerance(p, q)
                /\ BucketKey(p, Tolerance) # BucketKey(q, Tolerance)

\* C7: with a tolerance that is zero or negative the builder returns no
\* Junction and changes no connectedTraces.
C7_NonPositiveToleranceRejected ==
    (options # <<>> /\ options[1] <= 0 /\ phase \in {"found", "built"}) =>
        /\ junctions = <<>>
        /\ \A a \in Ids : TraceOf(a).connectedTraces = <<>>

\* C10: after the analysis of every trace and a run of the builder, B is
\* listed by A exactly when A and B differ and some returned Junction holds
\* both; no trace lists itself and a trace in no Junction lists nothing.
C10_ConnectivityIsCoMembership ==
    phase = "built" =>
        \A a \in Ids : \A b \in Ids :
            (b \in Connected(a)) <=> (a # b /\ ShareJunction(a, b))

C10_Witness ==
    /\ phase = "built"
    /\ runs = 1
    /\ \E a \in Ids : \E b \in Ids : \E c \in Ids :
          /\ a # b
          /\ b \in Connected(a)
          /\ ShareJunction(c, c)
          /\ TraceOf(c).connectedTraces = <<>>

====
